---- MODULE Spec2Model ----
(***************************************************************************)
(* Speech-segment detection of ai-video-trimmer:                           *)
(* src/src/audio/processing.py, detect_segments.                           *)
(*                                                                         *)
(* Time.  Every unrounded time of the function is a byte offset divided by *)
(* sample_rate * sample_width, so times are held exactly as whole numbers  *)
(* of TICKS, one tick = 1 / (sample_rate * sample_width) second = the      *)
(* duration of one byte of the normalised buffer.  A frame's timestamp in  *)
(* ticks is its byte offset and the total duration in ticks is the buffer  *)
(* length.  round(x, 2) maps a time to the nearest whole hundredth of a    *)
(* second, which is Hundredth ticks.  Configuration times are held in      *)
(* milliseconds (post_speech_padding_sec too) and converted to ticks where *)
(* the code adds or compares them.                                         *)
(***************************************************************************)
EXTENDS Integers, Naturals, Sequences, FiniteSets, TLC

\* ------------------------------------------------------------------ bounds
\* Largest number of whole frames in a buffer.
MaxFrames == 4

\* Largest number of raw segments handed to the merge sweep on its own.
MaxSegments == 3

\* Largest number of invocations of detect_segments in one behaviour.
MaxCalls == 3

\* Largest number of frames of an invocation that is remembered for the
\* comparison with later ones.
MaxReplayFrames == 1

\* Largest number of worker threads of the GUI alive at a time.
MaxWorkers == 2

\* ------------------------------------------------------- program constants
None == -1

\* webrtcvad only supports frame durations of 10, 20, or 30 ms.
ValidFrameDurations == {10, 20, 30}

FallbackFrameDuration == 30

SupportedRates == {8000, 16000, 32000, 48000}

FallbackRate == 16000

\* --------------------------------------------------------- enumerated inputs
\* Sample rates of the caller's buffer (44100 is not a classifier rate, and a
\* buffer with rate 0 is malformed).
InputRates == {0, 8000, 16000, 32000, 44100, 48000}

InputChannels == {1, 2}

\* bytes per sample (typically 2 for 16-bit PCM; a buffer with width 0 is
\* malformed)
SampleWidths == {0, 2}

\* Values of the frame_duration_ms argument; 17 is not a classifier duration.
FrameDurationArgs == {10, 20, 30, 17}

\* kwargs: no chunk_ms keyword (None), chunk_ms=100 as the pipelines pass, or
\* chunk_ms=20, a classifier duration.
ChunkArgs == {None, 100, 20}

\* Values of padding_duration_ms (milliseconds).
PaddingDurations == {0, 10, 300}

\* Values of post_speech_padding_sec, in milliseconds: 0, 0.007, 0.01, 0.2 s.
PostSpeechPaddings == {0, 7, 10, 200}

\* What the classifier does on one frame.
Verdicts == {"speech", "nonspeech", "raise"}

VARIABLES
    pc,                      \* position in detect_segments
    audio,                   \* [channels, frame_rate, sample_width, empty]
    frame_duration_ms,
    padding_duration_ms,
    post_speech_padding_sec, \* in milliseconds
    kwargs,                  \* value of the chunk_ms keyword, or None
    sample_rate,
    sample_width,
    raw_audio,               \* len(raw_audio), bytes
    frame_bytes,
    i,                       \* byte offset of the frame-splitting loop
    n,                       \* position of the running for-loop in its list
    frames,                  \* sequence of timestamps (ticks)
    vad_calls,               \* classifier invocations:
                             \* [timestamp, sample_rate, verdict]
    speech_flags,            \* sequence of [timestamp, is_speech]
    segments,                \* sequence of [start, end] (ticks)
    segment_start,
    last_speech_timestamp,
    merged_segments,
    current,                 \* index in segments of the dict `current` names
    diagnostics,             \* what was printed
    raw_segments,            \* the raw segments as the aggregation left them
    calls,                   \* [count, remembered]: number of invocations
                             \* begun, and at most one earlier invocation
                             \* kept as [input, verdicts, result]
    segment_params,          \* ProcessingController.segment_params (a dict)
    files,                   \* the artifact files that exist on disk
    last_call,               \* the controller step that returned last:
                             \* [step, progress_callback, result,
                             \*  error_reported, wrote]
    video_path,              \* controller.video_path, or None
    buttons,                 \* state of the five processing buttons
    processing,              \* ModernVideoProcessorApp.processing
    workers                  \* the worker threads whose completion or error
                             \* callback has not run: [step, phase, result]

\* The variables of detect_segments.
engine == <<pc, audio, frame_duration_ms, padding_duration_ms,
            post_speech_padding_sec, kwargs, sample_rate, sample_width,
            raw_audio, frame_bytes, i, n, frames, vad_calls, speech_flags,
            segments, segment_start, last_speech_timestamp, merged_segments,
            current, diagnostics, raw_segments, calls>>

\* The variables of the GUI's main window.
window == <<video_path, buttons, processing, workers>>

\* The variables of the GUI: its ProcessingController and its window.
app == <<segment_params, files, last_call, window>>

vars == <<engine, app>>

\* ------------------------------------------------------------------ helpers
Last(s) == s[Len(s)]

\* Ticks in one second, in one hundredth of a second, in one millisecond.
TicksPerSecond == sample_rate * sample_width

Hundredth == TicksPerSecond \div 100

Millisecond == TicksPerSecond \div 1000

\* Rounding to one decimal place instead of two.
Round2_OneDecimal(t) ==
    LET tenth == 10 * Hundredth
        q == t \div tenth
        r == t % tenth
    IN  IF 2 * r < tenth THEN q * tenth
        ELSE IF 2 * r > tenth THEN (q + 1) * tenth
        ELSE IF q % 2 = 0 THEN q * tenth
        ELSE (q + 1) * tenth

\* round(t, 2) of a time t >= 0 in ticks: the nearest whole hundredth; an
\* exact tie goes to the even hundredth (Python rounds half to even).  The
\* buffer lengths and paddings enumerated here put no time on an exact tie,
\* where the result would depend on the double nearest to the tie.
Round2(t) ==
    LET q == t \div Hundredth
        r == t % Hundredth
    IN  IF 2 * r < Hundredth THEN q * Hundredth
        ELSE IF 2 * r > Hundredth THEN (q + 1) * Hundredth
        ELSE IF q % 2 = 0 THEN q * Hundredth
        ELSE (q + 1) * Hundredth

\* Lengths of the normalised buffer tried for a frame size fb: k whole frames
\* followed by no byte, one byte, or one byte less than a frame.
BufferLengths(fb) ==
    {k * fb + x : k \in 0..MaxFrames, x \in {0, 1, fb - 1}} \cap Nat

\* --------------------------------------------------------------------- Init
\* processing_controller.py lines 62-67: the parameters a new controller
\* holds.  post_speech_padding_sec is held in milliseconds.
DefaultSegmentParams ==
    [k \in {"frame_duration_ms", "padding_duration_ms", "aggressiveness",
            "post_speech_padding_sec"} |->
        CASE k = "frame_duration_ms"       -> 30
          [] k = "padding_duration_ms"     -> 300
          [] k = "aggressiveness"          -> 3
          [] k = "post_speech_padding_sec" -> 200]

\* main_window.py lines 27-55 and 328-508: no video selected, the button of
\* step 1 created in its default state and the others disabled, no worker.
InitWindow ==
    /\ video_path = None
    /\ buttons = [b \in {"step1", "step2", "step3", "srt", "video"} |->
                     IF b = "step1" THEN "normal" ELSE "disabled"]
    /\ processing = FALSE
    /\ workers = <<>>

\* A new ProcessingController (lines 29-67) in a new window: the default
\* parameters, no step called yet.
InitController ==
    /\ segment_params = DefaultSegmentParams
    /\ last_call = [step |-> "none", progress_callback |-> FALSE,
                    result |-> "none", error_reported |-> FALSE,
                    wrote |-> {}]
    /\ InitWindow

Init ==
    /\ pc = "start"
    /\ audio \in [channels : InputChannels, frame_rate : InputRates,
                  sample_width : SampleWidths, empty : BOOLEAN]
    /\ frame_duration_ms \in FrameDurationArgs
    /\ padding_duration_ms \in PaddingDurations
    /\ post_speech_padding_sec \in PostSpeechPaddings
    /\ kwargs \in ChunkArgs
    /\ sample_rate = None
    /\ sample_width = None
    /\ raw_audio = None
    /\ frame_bytes = None
    /\ i = 0
    /\ n = 1
    /\ frames = <<>>
    /\ vad_calls = <<>>
    /\ speech_flags = <<>>
    /\ segments = <<>>
    /\ segment_start = None
    /\ last_speech_timestamp = None
    /\ merged_segments = <<>>
    /\ current = None
    /\ diagnostics = <<>>
    /\ raw_segments = <<>>
    /\ calls = [count |-> 1, remembered |-> <<>>]
    /\ InitController
    /\ files = {}

\* ------------------------------------------------------------------ actions
\* Lines 24-26: a chunk_ms keyword replaces frame_duration_ms.
\* The keyword used only when frame_duration_ms is not a classifier duration.
EffectiveArg_ExplicitWins ==
    IF kwargs # None /\ frame_duration_ms \notin ValidFrameDurations
    THEN kwargs ELSE frame_duration_ms

EffectiveArg == IF kwargs # None THEN kwargs ELSE frame_duration_ms

\* Lines 29-31: a duration webrtcvad does not support becomes 30 ms.
CheckedFrameDuration_Nearest(arg) ==
    IF arg \in ValidFrameDurations THEN arg
    ELSE IF arg > 30 THEN 30
    ELSE IF arg < 10 THEN 10
    ELSE ((arg + 5) \div 10) * 10

CheckedFrameDuration(arg) ==
    IF arg \notin ValidFrameDurations THEN FallbackFrameDuration ELSE arg

\* Lines 35-36: a rate webrtcvad does not support becomes 16000 Hz.
\* Resampling every buffer to the fallback rate.
NormalisedRate_AlwaysFallback(rate) == FallbackRate

NormalisedRate(rate) ==
    IF rate \notin SupportedRates THEN FallbackRate ELSE rate

\* A frame one sample longer than the frame duration.
FrameSize_ExtraSample(rate, duration) == (rate * duration) \div 1000 + 1

\* Line 43: frame_size = int(sample_rate * frame_duration_ms / 1000).
FrameSize(rate, duration) == (rate * duration) \div 1000

\* Lines 34-36 hand the buffer to pydub.  set_channels and set_frame_rate
\* convert only when the channel count or the rate has to change, and the
\* converter (audioop) rejects a rate of 0 and a sample width of 0.  With
\* samples to convert the call raises; for a buffer without samples it
\* depends on the pydub version whether the converter is called at all.
ConversionRejected ==
    /\ audio.frame_rate = 0 \/ audio.sample_width = 0
    /\ audio.channels # 1 \/ audio.frame_rate \notin SupportedRates

\* Lines 24-36 when the conversion raises: the frame duration has been
\* checked, nothing else has happened, and the exception leaves the function.
PrepareError ==
    /\ pc = "start"
    /\ ConversionRejected
    /\ LET arg == EffectiveArg
       IN  /\ frame_duration_ms' = CheckedFrameDuration(arg)
           /\ diagnostics' =
                IF arg \notin ValidFrameDurations
                THEN Append(diagnostics,
                            [kind |-> "invalid_frame_duration", value |-> arg])
                ELSE diagnostics
    /\ pc' = "error"
    /\ UNCHANGED <<audio, padding_duration_ms, post_speech_padding_sec, kwargs,
                   calls, app, raw_segments, sample_rate, sample_width,
                   raw_audio,
                   frame_bytes, i, n, frames, vad_calls, speech_flags,
                   segments, segment_start, last_speech_timestamp,
                   merged_segments, current>>

\* Lines 24-44: chunk_ms override, frame duration check with its warning,
\* normalisation to mono at a supported rate, frame size in bytes.
Prepare ==
    /\ pc = "start"
    /\ ~(ConversionRejected /\ ~audio.empty)
    /\ LET arg      == EffectiveArg
           duration == CheckedFrameDuration(arg)
           rate     == NormalisedRate(audio.frame_rate)
           fb       == FrameSize(rate, duration) * audio.sample_width
       IN  /\ frame_duration_ms' = duration
           /\ diagnostics' =
                IF arg \notin ValidFrameDurations
                THEN Append(diagnostics,
                            [kind |-> "invalid_frame_duration", value |-> arg])
                ELSE diagnostics
           /\ sample_rate' = rate
           /\ sample_width' = audio.sample_width
           /\ frame_bytes' = fb
           /\ raw_audio' \in IF audio.empty THEN {0} ELSE BufferLengths(fb)
           /\ audio' = [audio EXCEPT !.channels = 1, !.frame_rate = rate,
                                     !.empty = (raw_audio' = 0)]
    /\ i' = 0
    /\ pc' = "split"
    /\ UNCHANGED <<padding_duration_ms, post_speech_padding_sec, kwargs, calls, app,
                   raw_segments, n,
                   frames, vad_calls, speech_flags, segments, segment_start,
                   last_speech_timestamp, merged_segments, current>>

\* The loop running while any byte is left, so that a final partial window
\* becomes a frame: range(0, len(raw_audio), frame_bytes).
Split_PartialFrame ==
    /\ pc = "split"
    /\ frame_bytes # 0
    /\ i < raw_audio
    /\ frames' = Append(frames, i)
    /\ i' = i + frame_bytes
    /\ UNCHANGED <<pc, audio, frame_duration_ms, padding_duration_ms,
                   post_speech_padding_sec, kwargs, calls, app, raw_segments,
                   sample_rate, sample_width, raw_audio, frame_bytes, n,
                   vad_calls, speech_flags, segments, segment_start,
                   last_speech_timestamp, merged_segments, current,
                   diagnostics>>

\* Lines 47-51: one iteration of the frame-splitting loop
\* for i in range(0, len(raw_audio) - frame_bytes + 1, frame_bytes).
Split ==
    /\ pc = "split"
    /\ frame_bytes # 0
    /\ i < raw_audio - frame_bytes + 1
    /\ frames' = Append(frames, i)
    /\ i' = i + frame_bytes
    /\ UNCHANGED <<pc, audio, frame_duration_ms, padding_duration_ms,
                   post_speech_padding_sec, kwargs, calls, app,
                   raw_segments, sample_rate, sample_width,
                   raw_audio, frame_bytes, n, vad_calls, speech_flags,
                   segments, segment_start, last_speech_timestamp,
                   merged_segments, current, diagnostics>>

SplitDone ==
    /\ pc = "split"
    /\ frame_bytes # 0
    /\ ~(i < raw_audio - frame_bytes + 1)
    /\ pc' = "label"
    /\ n' = 1
    /\ UNCHANGED <<audio, frame_duration_ms, padding_duration_ms,
                   post_speech_padding_sec, kwargs, calls, app,
                   raw_segments, sample_rate, sample_width,
                   raw_audio, frame_bytes, i, frames, vad_calls, speech_flags,
                   segments, segment_start, last_speech_timestamp,
                   merged_segments, current, diagnostics>>

\* Line 48 with frame_bytes = 0: range() rejects a step of 0 and the
\* ValueError leaves the function.
SplitError ==
    /\ pc = "split"
    /\ frame_bytes = 0
    /\ pc' = "error"
    /\ UNCHANGED <<audio, frame_duration_ms, padding_duration_ms,
                   post_speech_padding_sec, kwargs, calls, app, raw_segments,
                   sample_rate, sample_width, raw_audio, frame_bytes, i, n,
                   frames, vad_calls, speech_flags, segments, segment_start,
                   last_speech_timestamp, merged_segments, current,
                   diagnostics>>

\* Lines 55-61: one frame is classified; an exception of the classifier is
\* printed and the frame is labelled with IsSpeechOnError.
\* A failing frame counted as speech.
IsSpeechOnError_True == TRUE

IsSpeechOnError == FALSE

\* Everything but an explicit non-speech verdict counted as speech.
IsSpeech_UnlessSilent(verdict) == verdict # "nonspeech"

IsSpeech(verdict) ==
    IF verdict = "raise" THEN IsSpeechOnError ELSE verdict = "speech"

\* An exception of the classifier ending the labelling loop.
Label_StopOnError ==
    /\ pc = "label"
    /\ n <= Len(frames)
    /\ \E verdict \in Verdicts :
        /\ vad_calls' = Append(vad_calls,
                               [timestamp |-> frames[n],
                                sample_rate |-> sample_rate,
                                verdict |-> verdict])
        /\ diagnostics' =
             IF verdict = "raise"
             THEN Append(diagnostics,
                         [kind |-> "frame_error", value |-> frames[n]])
             ELSE diagnostics
        /\ speech_flags' = Append(speech_flags,
                                  [timestamp |-> frames[n],
                                   is_speech |-> IsSpeech(verdict)])
        /\ n' = IF verdict = "raise" THEN Len(frames) + 1 ELSE n + 1
    /\ UNCHANGED <<pc, audio, frame_duration_ms, padding_duration_ms,
                   post_speech_padding_sec, kwargs, calls, app, raw_segments,
                   sample_rate, sample_width, raw_audio, frame_bytes, i,
                   frames, segments, segment_start, last_speech_timestamp,
                   merged_segments, current>>

\* An exception of the classifier answered by classifying the frame again.
Label_RetryOnError ==
    /\ pc = "label"
    /\ n <= Len(frames)
    /\ \E verdict \in Verdicts :
        /\ vad_calls' = Append(vad_calls,
                               [timestamp |-> frames[n],
                                sample_rate |-> sample_rate,
                                verdict |-> verdict])
        /\ diagnostics' =
             IF verdict = "raise"
             THEN Append(diagnostics,
                         [kind |-> "frame_error", value |-> frames[n]])
             ELSE diagnostics
        /\ speech_flags' =
             IF verdict = "raise" /\ Len(vad_calls) < n
             THEN speech_flags
             ELSE Append(speech_flags,
                         [timestamp |-> frames[n],
                          is_speech |-> IsSpeech(verdict)])
        /\ n' = IF verdict = "raise" /\ Len(vad_calls) < n THEN n ELSE n + 1
    /\ UNCHANGED <<pc, audio, frame_duration_ms, padding_duration_ms,
                   post_speech_padding_sec, kwargs, calls, app, raw_segments,
                   sample_rate, sample_width, raw_audio, frame_bytes, i,
                   frames, segments, segment_start, last_speech_timestamp,
                   merged_segments, current>>

Label ==
    /\ pc = "label"
    /\ n <= Len(frames)
    /\ \E verdict \in Verdicts :
        /\ vad_calls' = Append(vad_calls,
                               [timestamp |-> frames[n],
                                sample_rate |-> sample_rate,
                                verdict |-> verdict])
        /\ diagnostics' =
             IF verdict = "raise"
             THEN Append(diagnostics,
                         [kind |-> "frame_error", value |-> frames[n]])
             ELSE diagnostics
        /\ speech_flags' = Append(speech_flags,
                                  [timestamp |-> frames[n],
                                   is_speech |-> IsSpeech(verdict)])
    /\ n' = n + 1
    /\ UNCHANGED <<pc, audio, frame_duration_ms, padding_duration_ms,
                   post_speech_padding_sec, kwargs, calls, app,
                   raw_segments, sample_rate, sample_width,
                   raw_audio, frame_bytes, i, frames, segments, segment_start,
                   last_speech_timestamp, merged_segments, current>>

LabelDone ==
    /\ pc = "label"
    /\ n > Len(frames)
    /\ pc' = "aggregate"
    /\ n' = 1
    /\ UNCHANGED <<audio, frame_duration_ms, padding_duration_ms,
                   post_speech_padding_sec, kwargs, calls, app,
                   raw_segments, sample_rate, sample_width,
                   raw_audio, frame_bytes, i, frames, vad_calls, speech_flags,
                   segments, segment_start, last_speech_timestamp,
                   merged_segments, current, diagnostics>>

\* Lines 67-79: one (timestamp, is_speech) pair of the aggregation loop.
SegmentStart(timestamp) == Round2(timestamp)

\* The padding left out.
PaddedEnd_NoPadding(last) == Round2(last)

\* The padding, held in milliseconds, added as if it were hundredths.
PaddedEnd_Hundredths(last) == Round2(last + post_speech_padding_sec * Hundredth)

\* The segment cut at the frame that closes it instead of the last speech
\* frame.
PaddedEnd_AtClosingFrame(last) ==
    Round2(last + frame_bytes + post_speech_padding_sec * Millisecond)

PaddedEnd(last) == Round2(last + post_speech_padding_sec * Millisecond)

\* The aggregation loop looking at the same label again and again.
Aggregate_NoAdvance ==
    /\ pc = "aggregate"
    /\ n <= Len(speech_flags)
    /\ LET timestamp == speech_flags[n].timestamp
           is_speech == speech_flags[n].is_speech
       IN  IF is_speech
           THEN /\ segment_start' =
                     IF segment_start = None THEN SegmentStart(timestamp)
                     ELSE segment_start
                /\ last_speech_timestamp' = timestamp
                /\ UNCHANGED segments
           ELSE UNCHANGED <<segments, segment_start, last_speech_timestamp>>
    /\ UNCHANGED <<pc, audio, frame_duration_ms, padding_duration_ms,
                   post_speech_padding_sec, kwargs, calls, app,
                   raw_segments, sample_rate, sample_width,
                   raw_audio, frame_bytes, i, n, frames, vad_calls,
                   speech_flags, merged_segments, current, diagnostics>>

\* The run start kept after the run has been closed.
Aggregate_KeepsRunOpen ==
    /\ pc = "aggregate"
    /\ n <= Len(speech_flags)
    /\ LET timestamp == speech_flags[n].timestamp
           is_speech == speech_flags[n].is_speech
       IN  IF is_speech
           THEN /\ segment_start' =
                     IF segment_start = None THEN SegmentStart(timestamp)
                     ELSE segment_start
                /\ last_speech_timestamp' = timestamp
                /\ UNCHANGED segments
           ELSE IF segment_start # None /\ last_speech_timestamp # None
                THEN /\ segments' =
                          Append(segments,
                                 [start |-> Round2(segment_start),
                                  end   |-> PaddedEnd(last_speech_timestamp)])
                     /\ last_speech_timestamp' = None
                     /\ UNCHANGED segment_start
                ELSE UNCHANGED <<segments, segment_start,
                                 last_speech_timestamp>>
    /\ n' = n + 1
    /\ UNCHANGED <<pc, audio, frame_duration_ms, padding_duration_ms,
                   post_speech_padding_sec, kwargs, calls, app,
                   raw_segments, sample_rate, sample_width,
                   raw_audio, frame_bytes, i, frames, vad_calls, speech_flags,
                   merged_segments, current, diagnostics>>

Aggregate ==
    /\ pc = "aggregate"
    /\ n <= Len(speech_flags)
    /\ LET timestamp == speech_flags[n].timestamp
           is_speech == speech_flags[n].is_speech
       IN  IF is_speech
           THEN /\ segment_start' =
                     IF segment_start = None THEN SegmentStart(timestamp)
                     ELSE segment_start
                /\ last_speech_timestamp' = timestamp
                /\ UNCHANGED segments
           ELSE IF segment_start # None /\ last_speech_timestamp # None
                THEN /\ segments' =
                          Append(segments,
                                 [start |-> Round2(segment_start),
                                  end   |-> PaddedEnd(last_speech_timestamp)])
                     /\ segment_start' = None
                     /\ last_speech_timestamp' = None
                ELSE UNCHANGED <<segments, segment_start,
                                 last_speech_timestamp>>
    /\ n' = n + 1
    /\ UNCHANGED <<pc, audio, frame_duration_ms, padding_duration_ms,
                   post_speech_padding_sec, kwargs, calls, app,
                   raw_segments, sample_rate, sample_width,
                   raw_audio, frame_bytes, i, frames, vad_calls, speech_flags,
                   merged_segments, current, diagnostics>>

AggregateDone ==
    /\ pc = "aggregate"
    /\ n > Len(speech_flags)
    /\ pc' = "close"
    /\ UNCHANGED <<audio, frame_duration_ms, padding_duration_ms,
                   post_speech_padding_sec, kwargs, calls, app,
                   raw_segments, sample_rate, sample_width,
                   raw_audio, frame_bytes, i, n, frames, vad_calls,
                   speech_flags, segments, segment_start,
                   last_speech_timestamp, merged_segments, current,
                   diagnostics>>

\* Lines 80-85: a run still open at the end of the stream is closed at the
\* total duration len(raw_audio) / (sample_rate * sample_width), which in
\* ticks is len(raw_audio).
TotalDuration == raw_audio

\* The trailing run closed like every other run.
StreamEnd_Padded(total_duration) ==
    Round2(last_speech_timestamp + post_speech_padding_sec * Millisecond)

\* The total duration left unrounded.
StreamEnd_Unrounded(total_duration) == total_duration

StreamEnd(total_duration) == Round2(total_duration)

\* A run still open at the end of the stream left out of the list.
Close_DropsOpenRun ==
    /\ pc = "close"
    /\ pc' = "merge_init"
    /\ UNCHANGED <<audio, frame_duration_ms, padding_duration_ms,
                   post_speech_padding_sec, kwargs, calls, app,
                   raw_segments, sample_rate, sample_width,
                   raw_audio, frame_bytes, i, n, frames, vad_calls,
                   speech_flags, segments, segment_start,
                   last_speech_timestamp, merged_segments, current,
                   diagnostics>>

Close ==
    /\ pc = "close"
    /\ segments' =
         IF segment_start # None
         THEN Append(segments, [start |-> Round2(segment_start),
                                end   |-> StreamEnd(TotalDuration)])
         ELSE segments
    /\ pc' = "merge_init"
    /\ UNCHANGED <<audio, frame_duration_ms, padding_duration_ms,
                   post_speech_padding_sec, kwargs, calls, app,
                   raw_segments, sample_rate, sample_width,
                   raw_audio, frame_bytes, i, n, frames, vad_calls,
                   speech_flags, segment_start, last_speech_timestamp,
                   merged_segments, current, diagnostics>>

\* Lines 88-90: merged_segments = [], and current = segments[0] when there
\* is a segment.  current names the dict segments[0] itself, so current is
\* held as an index in segments.  With no segment the function returns [].
MergeInit ==
    /\ pc = "merge_init"
    /\ merged_segments' = <<>>
    /\ raw_segments' = segments
    /\ IF segments # <<>>
       THEN /\ current' = 1
            /\ n' = 2
            /\ pc' = "merge"
       ELSE /\ pc' = "done"
            /\ UNCHANGED <<current, n>>
    /\ UNCHANGED <<audio, frame_duration_ms, padding_duration_ms,
                   post_speech_padding_sec, kwargs, calls, app, sample_rate, sample_width,
                   raw_audio, frame_bytes, i, frames, vad_calls, speech_flags,
                   segments, segment_start, last_speech_timestamp,
                   diagnostics>>

\* Line 92: seg["start"] - current["end"] < padding_duration_ms / 1000.0 is
\* evaluated in IEEE-754 double arithmetic on two values that are each the
\* double nearest to a whole hundredth.  When the exact gap differs from the
\* threshold the double comparison agrees with the exact one.  When the exact
\* gap equals the threshold the double difference can fall below the double
\* threshold: FloatDiffBelow(g) is the set of e for which the doubles satisfy
\* (e+g)/100 - e/100 < g/100, for the gaps g (hundredths) that a threshold of
\* PaddingDurations or a multiple of 10 ms up to 30 can equal; e + g <= 48
\* for the gaps 1, 2 and 3, and e + g <= 200 for the gap 30.
FloatDiffBelow(g) ==
    CASE g = 1  -> {2, 5, 7, 8, 10, 11, 14, 17, 20, 23, 28, 34, 40, 46}
      [] g = 2  -> {1, 4, 7, 10, 13, 14, 16, 17, 19, 20, 22, 23, 27, 28, 33,
                    34, 39, 40, 45, 46}
      [] g = 3  -> {26, 27, 28, 32, 33, 34, 38, 39, 40, 44, 45}
      [] g = 30 -> {17, 27, 28, 39, 40, 52, 53, 54, 55, 56, 64, 65, 66, 67, 68,
                    83, 84, 85, 86, 87, 88, 89, 90, 91, 92, 93, 108, 109, 110,
                    111, 112, 133, 134, 135, 136, 137, 158, 159, 160, 161, 162}
      [] OTHER  -> {}

\* The comparison reversed.
GapBelowThreshold_Reversed(seg_start, current_end) ==
    seg_start - current_end > padding_duration_ms * Millisecond

GapBelowThreshold(seg_start, current_end) ==
    LET gap       == seg_start - current_end
        threshold == padding_duration_ms * Millisecond
    IN  IF gap # threshold THEN gap < threshold
        ELSE /\ gap > 0
             /\ (current_end \div Hundredth)
                    \in FloatDiffBelow(gap \div Hundredth)

\* A merge that drops the next segment without extending the running one.
Merge_NoExtend ==
    /\ pc = "merge"
    /\ n <= Len(segments)
    /\ LET seg == segments[n]
       IN  IF GapBelowThreshold(seg.start, segments[current].end)
           THEN UNCHANGED <<segments, merged_segments, current>>
           ELSE /\ merged_segments' =
                     Append(merged_segments, segments[current])
                /\ current' = n
                /\ UNCHANGED segments
    /\ n' = n + 1
    /\ UNCHANGED <<pc, audio, frame_duration_ms, padding_duration_ms,
                   post_speech_padding_sec, kwargs, calls, app, raw_segments,
                   sample_rate, sample_width, raw_audio, frame_bytes, i,
                   frames, vad_calls, speech_flags, segment_start,
                   last_speech_timestamp, diagnostics>>

\* The next segment compared with the end the running segment had before it
\* absorbed anything.
Merge_ComparesRawEnd ==
    /\ pc = "merge"
    /\ n <= Len(segments)
    /\ LET seg == segments[n]
       IN  IF GapBelowThreshold(seg.start, raw_segments[current].end)
           THEN /\ segments' =
                     [segments EXCEPT ![current].end = Round2(seg.end)]
                /\ UNCHANGED <<merged_segments, current>>
           ELSE /\ merged_segments' =
                     Append(merged_segments, segments[current])
                /\ current' = n
                /\ UNCHANGED segments
    /\ n' = n + 1
    /\ UNCHANGED <<pc, audio, frame_duration_ms, padding_duration_ms,
                   post_speech_padding_sec, kwargs, calls, app,
                   raw_segments, sample_rate, sample_width,
                   raw_audio, frame_bytes, i, frames, vad_calls, speech_flags,
                   segment_start, last_speech_timestamp, diagnostics>>

\* Lines 91-96: one segment of segments[1:] in the merge sweep.
Merge ==
    /\ pc = "merge"
    /\ n <= Len(segments)
    /\ LET seg == segments[n]
       IN  IF GapBelowThreshold(seg.start, segments[current].end)
           THEN /\ segments' =
                     [segments EXCEPT ![current].end = Round2(seg.end)]
                /\ UNCHANGED <<merged_segments, current>>
           ELSE /\ merged_segments' =
                     Append(merged_segments, segments[current])
                /\ current' = n
                /\ UNCHANGED segments
    /\ n' = n + 1
    /\ UNCHANGED <<pc, audio, frame_duration_ms, padding_duration_ms,
                   post_speech_padding_sec, kwargs, calls, app,
                   raw_segments, sample_rate, sample_width,
                   raw_audio, frame_bytes, i, frames, vad_calls, speech_flags,
                   segment_start, last_speech_timestamp, diagnostics>>

\* The running segment not appended after the sweep.
MergeDone_NoAppend ==
    /\ pc = "merge"
    /\ n > Len(segments)
    /\ pc' = "done"
    /\ UNCHANGED <<audio, frame_duration_ms, padding_duration_ms,
                   post_speech_padding_sec, kwargs, calls, app, raw_segments,
                   sample_rate, sample_width, raw_audio, frame_bytes, i, n,
                   frames, vad_calls, speech_flags, segments, segment_start,
                   last_speech_timestamp, merged_segments, current,
                   diagnostics>>

\* Lines 97-99: the running segment is appended and the list is returned.
MergeDone ==
    /\ pc = "merge"
    /\ n > Len(segments)
    /\ merged_segments' = Append(merged_segments, segments[current])
    /\ pc' = "done"
    /\ UNCHANGED <<audio, frame_duration_ms, padding_duration_ms,
                   post_speech_padding_sec, kwargs, calls, app,
                   raw_segments, sample_rate, sample_width,
                   raw_audio, frame_bytes, i, n, frames, vad_calls,
                   speech_flags, segments, segment_start,
                   last_speech_timestamp, current, diagnostics>>

Next ==
    \/ Prepare
    \/ PrepareError
    \/ Split
    \/ SplitDone
    \/ SplitError
    \/ Label
    \/ LabelDone
    \/ Aggregate
    \/ AggregateDone
    \/ Close
    \/ MergeInit
    \/ Merge
    \/ MergeDone

Spec == Init /\ [][Next]_vars

\* ------------------------------------------- the merge sweep on given segments
\* Lines 87-99 applied to a raw segment list: times of the list, in hundredths
\* of a second (0, 1, 1.2, 1.5 and 2 s), at 8000 Hz and 2 bytes per sample.
MergeTimes == {0, 100, 120, 150, 200}

\* Raw lists the aggregation stage can hand over: each run [start, last] lies
\* before the next run's start, every run closed by a non-speech frame ends
\* at last + post for one padding post >= 0, and the final run ends either
\* like that or at the total duration.
RawSegmentLists ==
    LET Seg   == [start : MergeTimes, end : MergeTimes]
        Lists == UNION {[1..m -> Seg] : m \in 0..MaxSegments}
    IN  {s \in Lists :
           \E post \in 0..200 :
               /\ \A k \in 1..(Len(s) - 1) :
                      /\ s[k].start <= s[k].end - post
                      /\ s[k].end - post < s[k + 1].start
               /\ Len(s) > 0 => s[Len(s)].start <= s[Len(s)].end
               /\ \A k \in 1..(Len(s) - 1) :
                      s[k].end - post < s[Len(s)].end}

InitMerge ==
    /\ pc = "merge_init"
    /\ audio = [channels |-> 1, frame_rate |-> 8000, sample_width |-> 2,
                empty |-> FALSE]
    /\ frame_duration_ms = 10
    /\ padding_duration_ms \in PaddingDurations
    /\ post_speech_padding_sec = 0
    /\ kwargs = None
    /\ sample_rate = 8000
    /\ sample_width = 2
    /\ raw_audio = 200 * 160
    /\ frame_bytes = 160
    /\ i = 0
    /\ n = 1
    /\ frames = <<>>
    /\ vad_calls = <<>>
    /\ speech_flags = <<>>
    /\ \E s \in RawSegmentLists :
           segments = [k \in 1..Len(s) |->
                          [start |-> s[k].start * 160, end |-> s[k].end * 160]]
    /\ segment_start = None
    /\ last_speech_timestamp = None
    /\ merged_segments = <<>>
    /\ current = None
    /\ diagnostics = <<>>
    /\ raw_segments = <<>>
    /\ calls = [count |-> 1, remembered |-> <<>>]
    /\ InitController
    /\ files = {}

NextMerge ==
    \/ MergeInit
    \/ Merge
    \/ MergeDone

SpecMerge == InitMerge /\ [][NextMerge]_vars

\* ------------------------------------------------------ repeated invocations
\* The function is called again after it has returned.  Every name of lines
\* 24-99 is a local of the call, the classifier object of line 41 included,
\* and the module holds no other state, so a call starts from fresh locals.
\* The buffers are mono 16-bit at 8000 Hz, split into 10 ms frames.
CallPaddings == {0, 200}

\* What a call was given, what the classifier answered, what it returned.
Invocation ==
    [input    |-> [audio |-> audio, raw_audio |-> raw_audio,
                   frame_duration_ms |-> frame_duration_ms,
                   padding_duration_ms |-> padding_duration_ms,
                   post_speech_padding_sec |-> post_speech_padding_sec],
     verdicts |-> [k \in 1..Len(vad_calls) |-> vad_calls[k].verdict],
     result   |-> merged_segments]

InitCalls ==
    /\ pc = "start"
    /\ audio = [channels |-> 1, frame_rate |-> 8000, sample_width |-> 2,
                empty |-> FALSE]
    /\ frame_duration_ms = 10
    /\ padding_duration_ms = 300
    /\ post_speech_padding_sec \in CallPaddings
    /\ kwargs = None
    /\ sample_rate = None
    /\ sample_width = None
    /\ raw_audio = None
    /\ frame_bytes = None
    /\ i = 0
    /\ n = 1
    /\ frames = <<>>
    /\ vad_calls = <<>>
    /\ speech_flags = <<>>
    /\ segments = <<>>
    /\ segment_start = None
    /\ last_speech_timestamp = None
    /\ merged_segments = <<>>
    /\ current = None
    /\ diagnostics = <<>>
    /\ raw_segments = <<>>
    /\ calls = [count |-> 1, remembered |-> <<>>]
    /\ InitController
    /\ files = {}

\* The raw segment list of one call surviving into the next, as a
\* module-level list would.
Call_KeepsSegments ==
    /\ pc = "done"
    /\ calls.count < MaxCalls
    /\ \E keep \in BOOLEAN :
         calls' = [count |-> calls.count + 1,
                   remembered |->
                     IF keep /\ calls.remembered = <<>>
                             /\ Len(frames) <= MaxReplayFrames
                     THEN <<Invocation>> ELSE calls.remembered]
    /\ pc' = "start"
    /\ audio' = [channels |-> 1, frame_rate |-> 8000, sample_width |-> 2,
                 empty |-> FALSE]
    /\ frame_duration_ms' = 10
    /\ padding_duration_ms' = 300
    /\ post_speech_padding_sec' \in CallPaddings
    /\ kwargs' = None
    /\ sample_rate' = None
    /\ sample_width' = None
    /\ raw_audio' = None
    /\ frame_bytes' = None
    /\ i' = 0
    /\ n' = 1
    /\ frames' = <<>>
    /\ vad_calls' = <<>>
    /\ speech_flags' = <<>>
    /\ segment_start' = None
    /\ last_speech_timestamp' = None
    /\ merged_segments' = <<>>
    /\ current' = None
    /\ diagnostics' = <<>>
    /\ raw_segments' = <<>>
    /\ UNCHANGED <<segments, app>>

\* Line 99 followed by a new call of line 12: the list is returned and the
\* function is entered again with a buffer and a configuration.
Call ==
    /\ pc = "done"
    /\ calls.count < MaxCalls
    /\ \E keep \in BOOLEAN :
         calls' = [count |-> calls.count + 1,
                   remembered |->
                     IF keep /\ calls.remembered = <<>>
                             /\ Len(frames) <= MaxReplayFrames
                     THEN <<Invocation>> ELSE calls.remembered]
    /\ pc' = "start"
    /\ audio' = [channels |-> 1, frame_rate |-> 8000, sample_width |-> 2,
                 empty |-> FALSE]
    /\ frame_duration_ms' = 10
    /\ padding_duration_ms' = 300
    /\ post_speech_padding_sec' \in CallPaddings
    /\ kwargs' = None
    /\ sample_rate' = None
    /\ sample_width' = None
    /\ raw_audio' = None
    /\ frame_bytes' = None
    /\ i' = 0
    /\ n' = 1
    /\ frames' = <<>>
    /\ vad_calls' = <<>>
    /\ speech_flags' = <<>>
    /\ segments' = <<>>
    /\ segment_start' = None
    /\ last_speech_timestamp' = None
    /\ merged_segments' = <<>>
    /\ current' = None
    /\ diagnostics' = <<>>
    /\ raw_segments' = <<>>
    /\ UNCHANGED app

NextCalls ==
    \/ Prepare
    \/ Split
    \/ SplitDone
    \/ Label
    \/ LabelDone
    \/ Aggregate
    \/ AggregateDone
    \/ Close
    \/ MergeInit
    \/ Merge
    \/ MergeDone
    \/ Call

SpecCalls == InitCalls /\ [][NextCalls]_vars

\* One call that is not held up: every for loop of lines 48-97 goes on to its
\* next iteration, and the statements between the loops are executed.
\* The buffers are malformed (rate 0), at a classifier rate (8000) or at
\* another rate (44100).
InitFair ==
    /\ Init
    /\ audio.frame_rate \in {0, 8000, 44100}

SpecFair == InitFair /\ [][Next]_vars /\ WF_vars(Next)

\* ------------------------------------------------- ProcessingController
\* The keys process_raw_segments reads (processing_controller.py 190-193).
DetectionKeys ==
    {"frame_duration_ms", "padding_duration_ms", "aggressiveness",
     "post_speech_padding_sec"}

\* Arguments of update_segment_params: None (the default) or a value.
UpdateArgs ==
    [frame_duration_ms : {None, 20}, padding_duration_ms : {None, 0},
     aggressiveness : {None, 1}, post_speech_padding_sec : {None, 0}]

\* Arguments of set_segment_params, as the GUI's spin boxes give them.
SetArgs ==
    [frame_duration : {30, 20}, speech_threshold : {75},
     min_speech_duration : {50}, min_silence_duration : {300}]

\* Lines 120-135: every argument that is not None is stored under its key.
update_segment_params(given) ==
    /\ LET set == {k \in DOMAIN given : given[k] # None}
       IN  segment_params' =
             [k \in (DOMAIN segment_params) \cup set |->
                 IF k \in set THEN given[k] ELSE segment_params[k]]
    /\ UNCHANGED <<engine, files, last_call>>

\* Lines 358-381: segment_params is replaced by a dict of the four arguments.
set_segment_params(given) ==
    /\ segment_params' = given
    /\ UNCHANGED <<engine, files, last_call>>

\* Lines 163-202: the audio is extracted to audio_file, the four parameters
\* are read from segment_params (a missing key raises KeyError), and the
\* segments are saved.  A collaborator (extract_audio, AudioSegment.from_file,
\* detect_segments, save_json) may raise instead.
process_raw_segments(progress_callback) ==
    /\ \E failure \in BOOLEAN :
         IF failure
         THEN /\ last_call' = [step |-> "process_raw_segments",
                               progress_callback |-> progress_callback,
                               result |-> "raised",
                               error_reported |-> FALSE, wrote |-> {}]
              /\ UNCHANGED files
         ELSE IF ~(DetectionKeys \subseteq DOMAIN segment_params)
         THEN /\ last_call' = [step |-> "process_raw_segments",
                               progress_callback |-> progress_callback,
                               result |-> "KeyError",
                               error_reported |-> FALSE, wrote |-> {"audio"}]
              /\ files' = files \cup {"audio"}
         ELSE /\ last_call' = [step |-> "process_raw_segments",
                               progress_callback |-> progress_callback,
                               result |-> "segments",
                               error_reported |-> FALSE,
                               wrote |-> {"audio", "segments"}]
              /\ files' = files \cup {"audio", "segments"}
    /\ UNCHANGED <<engine, segment_params>>

\* A step that does not look for the file it needs.
RunStep_NoExistenceCheck(step, needs, artifact, progress_callback) ==
    /\ \E failure \in BOOLEAN :
         IF failure
         THEN /\ last_call' = [step |-> step,
                               progress_callback |-> progress_callback,
                               result |-> "raised",
                               error_reported |-> FALSE, wrote |-> {}]
              /\ UNCHANGED files
         ELSE /\ last_call' = [step |-> step,
                               progress_callback |-> progress_callback,
                               result |-> artifact,
                               error_reported |-> FALSE,
                               wrote |-> {artifact}]
              /\ files' = files \cup {artifact}
    /\ UNCHANGED <<engine, segment_params>>

\* The common shape of lines 204-239, 241-275, 277-312 and 314-345: without
\* the file `needs` the step reports an error (when it was given a progress
\* callback) and returns None; otherwise it loads the file, calls its
\* collaborator, which may raise, and saves `artifact`.
RunStep(step, needs, artifact, progress_callback) ==
    /\ IF needs \notin files
       THEN /\ last_call' = [step |-> step,
                             progress_callback |-> progress_callback,
                             result |-> "None",
                             error_reported |-> progress_callback,
                             wrote |-> {}]
            /\ UNCHANGED files
       ELSE \E failure \in BOOLEAN :
              IF failure
              THEN /\ last_call' = [step |-> step,
                                    progress_callback |-> progress_callback,
                                    result |-> "raised",
                                    error_reported |-> FALSE, wrote |-> {}]
                   /\ UNCHANGED files
              ELSE /\ last_call' = [step |-> step,
                                    progress_callback |-> progress_callback,
                                    result |-> artifact,
                                    error_reported |-> FALSE,
                                    wrote |-> {artifact}]
                   /\ files' = files \cup {artifact}
    /\ UNCHANGED <<engine, segment_params>>

\* Lines 204-239.
process_transcription(progress_callback) ==
    RunStep("process_transcription", "segments", "transcription",
            progress_callback)

\* Lines 241-275.
process_suggestions(progress_callback) ==
    RunStep("process_suggestions", "transcription", "suggestion",
            progress_callback)

\* Lines 277-312.
generate_srt(progress_callback) ==
    RunStep("generate_srt", "suggestion", "srt", progress_callback)

\* Lines 314-345.
generate_edited_video(progress_callback) ==
    RunStep("generate_edited_video", "suggestion", "video",
            progress_callback)

\* The controller's methods called in any order for one video, the engine
\* at its entry and the window untouched.
InitControllerCalls ==
    /\ InitCalls
    /\ post_speech_padding_sec = 200

NextController ==
    \/ \E given \in UpdateArgs :
          update_segment_params(given) /\ UNCHANGED window
    \/ \E given \in SetArgs :
          set_segment_params(given) /\ UNCHANGED window
    \/ \E cb \in BOOLEAN : process_raw_segments(cb) /\ UNCHANGED window
    \/ \E cb \in BOOLEAN : process_transcription(cb) /\ UNCHANGED window
    \/ \E cb \in BOOLEAN : process_suggestions(cb) /\ UNCHANGED window
    \/ \E cb \in BOOLEAN : generate_srt(cb) /\ UNCHANGED window
    \/ \E cb \in BOOLEAN : generate_edited_video(cb) /\ UNCHANGED window

SpecController == InitControllerCalls /\ [][NextController]_vars

\* ---------------------------------------------------------- main window
\* The five step buttons of create_processing_section.
Buttons == {"step1", "step2", "step3", "srt", "video"}

\* Artifact files of earlier sessions that a new window can find on disk.
ExistingFiles ==
    {{}, {"audio", "segments"}, {"audio", "segments", "transcription"},
     {"audio", "segments", "transcription", "suggestion"}}

\* main_window.py 591-629: the buttons whose input file exists are enabled.
check_existing_files(bs) ==
    [b \in Buttons |->
        IF \/ b = "step2" /\ "segments" \in files
           \/ b = "step3" /\ "transcription" \in files
           \/ b \in {"srt", "video"} /\ "suggestion" \in files
        THEN "normal" ELSE bs[b]]

\* The path of the file chosen in the dialog of line 557 (one video).
ChosenVideo == 1

\* Lines 555-589 with a file chosen in the dialog: the buttons of the later
\* steps are disabled, the video is set, step 1 is enabled, and the buttons
\* are enabled again from the files found.
browse_file ==
    /\ video_path' = ChosenVideo
    /\ buttons' = check_existing_files(
                      [b \in Buttons |->
                          IF b = "step1" THEN "normal" ELSE "disabled"])
    /\ UNCHANGED <<engine, segment_params, files, last_call, processing,
                   workers>>

\* Lines 305-326 with a file selected.
refresh_files ==
    /\ video_path # None
    /\ buttons' = check_existing_files(
                      [b \in Buttons |->
                          IF b = "step1" THEN buttons[b] ELSE "disabled"])
    /\ UNCHANGED <<engine, segment_params, files, last_call, video_path,
                   processing, workers>>

\* What every run_* handler does once its check has passed: its own button
\* is disabled, processing is set, and a daemon thread is started.
StartWorker(b) ==
    /\ Len(workers) < MaxWorkers
    /\ buttons' = [buttons EXCEPT ![b] = "disabled"]
    /\ processing' = TRUE
    /\ workers' = Append(workers, [step |-> b, phase |-> "running",
                                   result |-> "none"])

\* Lines 643-687: a click on the enabled button of step 1 with a video
\* selected; set_segment_params is called before the thread is started.
run_detect_segments ==
    /\ buttons["step1"] = "normal"
    /\ video_path # None
    /\ \E given \in SetArgs : set_segment_params(given)
    /\ StartWorker("step1")
    /\ UNCHANGED video_path

\* Lines 714-754: a click on the enabled button of step 2; the handler
\* returns with a warning unless the segments file exists.
run_transcribe_segments ==
    /\ buttons["step2"] = "normal"
    /\ "segments" \in files
    /\ StartWorker("step2")
    /\ UNCHANGED <<engine, segment_params, files, last_call, video_path>>

\* Lines 781-821: the same for step 3 and the transcription file.
run_generate_suggestions ==
    /\ buttons["step3"] = "normal"
    /\ "transcription" \in files
    /\ StartWorker("step3")
    /\ UNCHANGED <<engine, segment_params, files, last_call, video_path>>

\* Lines 850-888: the same for the SRT button and the suggestion file.
run_generate_srt ==
    /\ buttons["srt"] = "normal"
    /\ "suggestion" \in files
    /\ StartWorker("srt")
    /\ UNCHANGED <<engine, segment_params, files, last_call, video_path>>

\* Lines 906-944: the same for the video button and the suggestion file.
run_generate_video ==
    /\ buttons["video"] = "normal"
    /\ "suggestion" \in files
    /\ StartWorker("video")
    /\ UNCHANGED <<engine, segment_params, files, last_call, video_path>>

\* process_task of the five handlers: the thread runs its controller step
\* with a progress callback and schedules _on_*_complete with the step's
\* result, or _on_processing_error when the step raised, with root.after.
process_task(k) ==
    /\ k \in 1..Len(workers)
    /\ workers[k].phase = "running"
    /\ CASE workers[k].step = "step1" -> process_raw_segments(TRUE)
         [] workers[k].step = "step2" -> process_transcription(TRUE)
         [] workers[k].step = "step3" -> process_suggestions(TRUE)
         [] workers[k].step = "srt"   -> generate_srt(TRUE)
         [] workers[k].step = "video" -> generate_edited_video(TRUE)
    /\ workers' = [workers EXCEPT ![k] = [step |-> workers[k].step,
                                          phase |-> "scheduled",
                                          result |-> last_call'.result]]
    /\ UNCHANGED <<video_path, buttons, processing>>

\* The buttons a completion callback enables after a step that produced its
\* file: the next step's (lines 703, 770, 837-839).
NextButtons(b) ==
    CASE b = "step1" -> {"step2"}
      [] b = "step2" -> {"step3"}
      [] b = "step3" -> {"srt", "video"}
      [] OTHER       -> {}

\* The Tk main loop running a scheduled callback.  _on_*_complete (lines
\* 689-712 and alike) clears processing, enables the next buttons when the
\* file was produced, and enables the step's own button again;
\* _on_processing_error (lines 967-985) clears processing and enables all
\* five buttons.
deliver_callback(k) ==
    /\ k \in 1..Len(workers)
    /\ workers[k].phase = "scheduled"
    /\ processing' = FALSE
    /\ buttons' =
         IF workers[k].result \in {"raised", "KeyError"}
         THEN [b \in Buttons |-> "normal"]
         ELSE [b \in Buttons |->
                  IF \/ b = workers[k].step
                     \/ /\ b \in NextButtons(workers[k].step)
                        /\ workers[k].result # "None"
                  THEN "normal" ELSE buttons[b]]
    /\ workers' = [j \in 1..(Len(workers) - 1) |->
                      IF j < k THEN workers[j] ELSE workers[j + 1]]
    /\ UNCHANGED <<engine, segment_params, files, last_call, video_path>>

\* A new window over a directory that may hold the files of earlier
\* sessions; detect_segments is at its entry.
InitWindowSession ==
    /\ pc = "start"
    /\ audio = [channels |-> 1, frame_rate |-> 8000, sample_width |-> 2,
                empty |-> FALSE]
    /\ frame_duration_ms = 30
    /\ padding_duration_ms = 300
    /\ post_speech_padding_sec = 200
    /\ kwargs = None
    /\ sample_rate = None
    /\ sample_width = None
    /\ raw_audio = None
    /\ frame_bytes = None
    /\ i = 0
    /\ n = 1
    /\ frames = <<>>
    /\ vad_calls = <<>>
    /\ speech_flags = <<>>
    /\ segments = <<>>
    /\ segment_start = None
    /\ last_speech_timestamp = None
    /\ merged_segments = <<>>
    /\ current = None
    /\ diagnostics = <<>>
    /\ raw_segments = <<>>
    /\ calls = [count |-> 1, remembered |-> <<>>]
    /\ InitController
    /\ files \in ExistingFiles

NextWindow ==
    \/ browse_file
    \/ refresh_files
    \/ run_detect_segments
    \/ run_transcribe_segments
    \/ run_generate_suggestions
    \/ run_generate_srt
    \/ run_generate_video
    \/ \E k \in 1..MaxWorkers : process_task(k)
    \/ \E k \in 1..MaxWorkers : deliver_callback(k)

SpecWindow == InitWindowSession /\ [][NextWindow]_vars

\* ----------------------------------------------- detect_segments as a function
\* The same code as one function of the frame duration and the labels of the
\* frames, for the buffer and the remaining configuration of the state.
RECURSIVE SplitFrames(_, _)
SplitFrames(offset, fb) ==
    IF offset < raw_audio - fb + 1
    THEN <<offset>> \o SplitFrames(offset + fb, fb)
    ELSE <<>>

RECURSIVE AggregateFrom(_, _, _, _, _)
AggregateFrom(flags, k, start, last, segs) ==
    IF k > Len(flags)
    THEN IF start # None
         THEN Append(segs, [start |-> Round2(start),
                            end   |-> StreamEnd(TotalDuration)])
         ELSE segs
    ELSE IF flags[k].is_speech
    THEN AggregateFrom(flags, k + 1,
                       IF start = None THEN SegmentStart(flags[k].timestamp)
                       ELSE start,
                       flags[k].timestamp, segs)
    ELSE IF start # None /\ last # None
    THEN AggregateFrom(flags, k + 1, None, None,
                       Append(segs, [start |-> Round2(start),
                                     end   |-> Round2(last
                                         + post_speech_padding_sec
                                           * Millisecond)]))
    ELSE AggregateFrom(flags, k + 1, start, last, segs)

RECURSIVE MergeFrom(_, _, _, _)
MergeFrom(segs, k, cur, out) ==
    IF k > Len(segs) THEN Append(out, cur)
    ELSE IF GapBelowThreshold(segs[k].start, cur.end)
    THEN MergeFrom(segs, k + 1, [cur EXCEPT !.end = Round2(segs[k].end)], out)
    ELSE MergeFrom(segs, k + 1, segs[k], Append(out, cur))

detect_segments(duration, labels) ==
    LET fb    == FrameSize(sample_rate, duration) * sample_width
        fr    == SplitFrames(0, fb)
        flags == [k \in 1..Len(fr) |->
                    [timestamp |-> fr[k], is_speech |-> labels[k]]]
        raw   == AggregateFrom(flags, 1, None, None, <<>>)
    IN  IF raw = <<>> THEN <<>> ELSE MergeFrom(raw, 2, raw[1], <<>>)

\* ------------------------------------------------------------------ claims

\* C1: in the list detect_segments returns, every segment has start <= end and
\* every segment ends no later than the next one starts.
C1_OrderedNonOverlapping ==
    pc = "done" =>
        /\ \A k \in 1..Len(merged_segments) :
               merged_segments[k].start <= merged_segments[k].end
        /\ \A k \in 1..(Len(merged_segments) - 1) :
               merged_segments[k].end <= merged_segments[k + 1].start

C1_Witness ==
    /\ pc = "done"
    /\ Len(merged_segments) >= 2
    /\ post_speech_padding_sec > 0

\* C2: the aggregation loop refines the two-state machine.  At every loop
\* boundary segment_start and last_speech_timestamp are both None (Idle) or
\* both set (InSpeech).  A speech frame at ts takes Idle to InSpeech(ts, ts)
\* and InSpeech(start, _) to InSpeech(start, ts) and emits nothing; a
\* non-speech frame in InSpeech(start, last) emits exactly the segment
\* {round(start, 2), round(last + post_speech_padding_sec, 2)} and goes to
\* Idle; a non-speech frame in Idle changes nothing.
C2_AggregatorRefinesStateMachine ==
    /\ [](pc \in {"aggregate", "close"} =>
            ((segment_start = None) <=> (last_speech_timestamp = None)))
    /\ [][(pc = "aggregate" /\ n <= Len(speech_flags)) =>
            LET ts == speech_flags[n].timestamp
            IN  IF speech_flags[n].is_speech
                THEN /\ segments' = segments
                     /\ last_speech_timestamp' = ts
                     /\ segment_start' =
                          IF segment_start = None THEN ts ELSE segment_start
                ELSE IF segment_start # None
                THEN /\ segments' =
                          Append(segments,
                                 [start |-> Round2(segment_start),
                                  end   |-> Round2(last_speech_timestamp
                                                + post_speech_padding_sec
                                                  * Millisecond)])
                     /\ segment_start' = None
                     /\ last_speech_timestamp' = None
                ELSE /\ segments' = segments
                     /\ segment_start' = None
                     /\ last_speech_timestamp' = None]_vars

C2_Witness ==
    /\ pc = "aggregate"
    /\ segments # <<>>
    /\ segment_start # None
    /\ post_speech_padding_sec = 7

\* C3: when the last whole frame is labelled speech, the last returned segment
\* ends at the total duration of the buffer rounded to 2 decimals, also when
\* the trailing segment was merged into an earlier one.
C3_TrailingSpeechEndsAtTotalDuration ==
    (pc = "done" /\ speech_flags # <<>> /\ Last(speech_flags).is_speech) =>
        /\ merged_segments # <<>>
        /\ Last(merged_segments).end = Round2(raw_audio)

C3_Witness ==
    /\ pc = "done"
    /\ speech_flags # <<>>
    /\ Last(speech_flags).is_speech
    /\ Len(segments) >= 2
    /\ Len(merged_segments) = 1
    /\ raw_audio > Len(frames) * frame_bytes
    /\ Last(merged_segments).end # Last(frames)
    /\ Last(merged_segments).end
         # Round2(Last(frames) + post_speech_padding_sec * Millisecond)

\* C4: in the merge sweep the next raw segment is absorbed into the running
\* segment if and only if next.start - running.end is strictly less than
\* padding_duration_ms / 1000; otherwise (a gap equal to the threshold or
\* larger) the running segment is appended to the output unchanged and the
\* next segment becomes the running one.
C4_MergeIffGapBelowThreshold ==
    [][(pc = "merge" /\ n <= Len(segments)) =>
         LET seg     == segments[n]
             running == segments[current]
         IN  IF seg.start - running.end < padding_duration_ms * Millisecond
             THEN /\ current' = current
                  /\ merged_segments' = merged_segments
                  /\ segments'[current].start = running.start
                  /\ segments'[current].end = seg.end
             ELSE /\ merged_segments' = Append(merged_segments, running)
                  /\ current' = n
                  /\ segments' = segments]_vars

\* C5: a buffer in which no frame is labelled speech (zero length, shorter
\* than one frame, or any number of frames none of which the classifier calls
\* speech) yields the empty list.
C5_NoSpeechGivesEmptyList ==
    (pc = "done" /\ \A k \in 1..Len(vad_calls) :
                        vad_calls[k].verdict # "speech")
        => merged_segments = <<>>

C5_Witness ==
    /\ pc = "done"
    /\ Len(frames) >= 2
    /\ raw_audio > Len(frames) * frame_bytes
    /\ \A k \in 1..Len(vad_calls) : vad_calls[k].verdict # "speech"
    /\ \E k \in 1..Len(vad_calls) : vad_calls[k].verdict = "raise"
    /\ merged_segments = <<>>

\* C6: when the classifier raises on some frames, every frame is still
\* classified, a failing frame is labelled non-speech, every other frame keeps
\* the classifier's verdict, and the returned list is the one returned when
\* the classifier answers False on exactly the failing frames.
C6_ClassifierFailureIsNonSpeech ==
    /\ Len(speech_flags) = Len(vad_calls)
    /\ \A k \in 1..Len(speech_flags) :
           /\ speech_flags[k].timestamp = vad_calls[k].timestamp
           /\ speech_flags[k].is_speech = (vad_calls[k].verdict = "speech")
    /\ pc = "done" =>
           /\ Len(vad_calls) = Len(frames)
           /\ merged_segments =
                detect_segments(frame_duration_ms,
                                [k \in 1..Len(vad_calls) |->
                                    vad_calls[k].verdict = "speech"])

C6_Witness ==
    /\ pc = "done"
    /\ \E k \in 1..Len(vad_calls) : vad_calls[k].verdict = "raise"
    /\ \E k \in 1..Len(vad_calls) : vad_calls[k].verdict = "nonspeech"
    /\ vad_calls[1].verdict = "raise"
    /\ Len(merged_segments) = 2

\* C7, as stated: a frame_duration_ms outside {10, 20, 30} prints the warning
\* and gives the segments of frame_duration_ms = 30; a frame_duration_ms
\* inside {10, 20, 30} prints nothing and is used as given.
C7_FrameDurationFallback ==
    /\ [][pc = "start" =>
            IF frame_duration_ms \notin {10, 20, 30}
            THEN /\ Len(diagnostics') = Len(diagnostics) + 1
                 /\ Last(diagnostics').kind = "invalid_frame_duration"
                 /\ frame_duration_ms' = 30
            ELSE /\ diagnostics' = diagnostics
                 /\ frame_duration_ms' = frame_duration_ms]_vars
    /\ []((pc = "done" /\ diagnostics # <<>>
                       /\ diagnostics[1].kind = "invalid_frame_duration") =>
            /\ Len(speech_flags)
                 = Len(SplitFrames(0, FrameSize(sample_rate, 30) * sample_width))
            /\ merged_segments =
                 detect_segments(30, [k \in 1..Len(speech_flags) |->
                                         speech_flags[k].is_speech]))

\* C7, amended: the same for a call without the chunk_ms keyword.
C7_FrameDurationFallbackWithoutChunk ==
    /\ [][(pc = "start" /\ kwargs = None) =>
            IF frame_duration_ms \notin {10, 20, 30}
            THEN /\ diagnostics' =
                      Append(diagnostics,
                             [kind  |-> "invalid_frame_duration",
                              value |-> frame_duration_ms])
                 /\ frame_duration_ms' = 30
            ELSE /\ diagnostics' = diagnostics
                 /\ frame_duration_ms' = frame_duration_ms]_vars
    /\ []((pc = "done" /\ kwargs = None /\ diagnostics # <<>>
                       /\ diagnostics[1].kind = "invalid_frame_duration") =>
            /\ Len(speech_flags)
                 = Len(SplitFrames(0, FrameSize(sample_rate, 30) * sample_width))
            /\ merged_segments =
                 detect_segments(30, [k \in 1..Len(speech_flags) |->
                                         speech_flags[k].is_speech]))

C7_Witness ==
    /\ pc = "done"
    /\ kwargs = None
    /\ diagnostics # <<>>
    /\ diagnostics[1] = [kind |-> "invalid_frame_duration", value |-> 17]
    /\ Len(frames) >= 3
    /\ merged_segments # <<>>

\* C8, as stated: before the gap merger runs, every raw segment ends no later
\* than the next raw segment starts.
C8_RawNonOverlapping ==
    pc = "merge_init" =>
        \A k \in 1..(Len(segments) - 1) :
            segments[k].end <= segments[k + 1].start

\* C8, amended: the raw list is ordered by start, and every raw segment ends
\* no later than the next one starts when post_speech_padding_sec is at most
\* two frame durations.
C8_RawOrderedNonOverlappingShortPadding ==
    pc = "merge_init" =>
        \A k \in 1..(Len(segments) - 1) :
            /\ segments[k].start <= segments[k + 1].start
            /\ post_speech_padding_sec <= 2 * frame_duration_ms
                 => segments[k].end <= segments[k + 1].start

C8_Witness ==
    /\ pc = "merge_init"
    /\ Len(segments) >= 2
    /\ post_speech_padding_sec > 0
    /\ post_speech_padding_sec <= 2 * frame_duration_ms
    /\ segments[1].end > segments[1].start
    /\ segments[2].start - segments[1].end = Hundredth

\* C9: start values are strictly increasing in the raw segment list and in the
\* returned list.
C9_StartsStrictlyIncreasing ==
    /\ pc = "merge_init" =>
           \A k \in 1..(Len(segments) - 1) :
               segments[k].start < segments[k + 1].start
    /\ pc = "done" =>
           \A k \in 1..(Len(merged_segments) - 1) :
               merged_segments[k].start < merged_segments[k + 1].start

C9_Witness ==
    /\ pc = "done"
    /\ frame_duration_ms = 10
    /\ Len(merged_segments) >= 2
    /\ merged_segments[2].start = merged_segments[1].start + 2 * Hundredth

\* C10: every start and every end of the returned list is a whole number of
\* hundredths of a second, unchanged by rounding to 2 decimals again.
C10_TwoDecimalPlaces ==
    pc = "done" =>
        \A k \in 1..Len(merged_segments) :
            /\ merged_segments[k].start % Hundredth = 0
            /\ merged_segments[k].end % Hundredth = 0
            /\ Round2(merged_segments[k].start) = merged_segments[k].start
            /\ Round2(merged_segments[k].end) = merged_segments[k].end

C10_Witness ==
    /\ pc = "done"
    /\ raw_audio % Hundredth # 0
    /\ post_speech_padding_sec = 7
    /\ speech_flags # <<>>
    /\ Last(speech_flags).is_speech
    /\ Len(segments) = 2
    /\ Len(merged_segments) = 1

\* C11: the frame splitter produces exactly floor(len(raw_audio) / frame_bytes)
\* frames; frame k (from 0) starts at byte k * frame_bytes, which is also its
\* timestamp in ticks, and its window of frame_bytes bytes lies inside the
\* buffer, so frames are in order, whole and disjoint and a final partial
\* window is dropped; frame_bytes is the same with int() as with round().
C11_FrameSplitter ==
    pc \notin {"start", "error"} =>
        /\ frame_bytes
             = ((sample_rate * frame_duration_ms + 500) \div 1000) * sample_width
        /\ \A k \in 1..Len(frames) :
               /\ frames[k] = (k - 1) * frame_bytes
               /\ frames[k] + frame_bytes <= raw_audio
        /\ pc # "split" =>
               /\ Len(frames) = raw_audio \div frame_bytes
               /\ raw_audio - Len(frames) * frame_bytes < frame_bytes

C11_Witness ==
    /\ pc = "label"
    /\ Len(frames) >= 2
    /\ raw_audio = Len(frames) * frame_bytes + frame_bytes - 1

\* C12: the merge sweep applied to the raw segments [{0, 1}, {1.2, 2}] with
\* padding_duration_ms = 300 returns exactly [{0, 2}].
C12_MergeExample ==
    (/\ pc = "done"
     /\ padding_duration_ms = 300
     /\ raw_segments = <<[start |-> 0, end |-> 100 * Hundredth],
                         [start |-> 120 * Hundredth, end |-> 200 * Hundredth]>>)
        => merged_segments = <<[start |-> 0, end |-> 200 * Hundredth]>>

C12_Witness ==
    /\ pc = "done"
    /\ padding_duration_ms = 300
    /\ raw_segments = <<[start |-> 0, end |-> 100 * Hundredth],
                        [start |-> 120 * Hundredth, end |-> 200 * Hundredth]>>
    /\ Len(merged_segments) = 1

\* C13: the merge sweep returns the empty list for an empty raw list and a
\* one-element raw list unchanged, for every padding_duration_ms.
C13_MergeEmptyAndSingle ==
    pc = "done" =>
        /\ raw_segments = <<>> => merged_segments = <<>>
        /\ Len(raw_segments) = 1 => merged_segments = raw_segments

C13_Witness ==
    /\ pc = "done"
    /\ padding_duration_ms = 300
    /\ Len(raw_segments) = 1
    /\ raw_segments[1].end > raw_segments[1].start
    /\ merged_segments = raw_segments

\* C14: with 30 ms frames, padding_duration_ms = 300 and
\* post_speech_padding_sec = 0.2, a buffer of at least two whole frames on
\* which the classifier raises for exactly one frame and answers speech for
\* every other frame yields exactly one segment, wherever the failing frame is.
C14_OneFailingFrameOneSegment ==
    (/\ pc = "done"
     /\ frame_duration_ms = 30
     /\ padding_duration_ms = 300
     /\ post_speech_padding_sec = 200
     /\ Len(frames) >= 2
     /\ Cardinality({k \in 1..Len(vad_calls) :
                        vad_calls[k].verdict = "raise"}) = 1
     /\ \A k \in 1..Len(vad_calls) :
            vad_calls[k].verdict \in {"raise", "speech"})
        => Len(merged_segments) = 1

C14_Witness ==
    /\ pc = "done"
    /\ frame_duration_ms = 30
    /\ padding_duration_ms = 300
    /\ post_speech_padding_sec = 200
    /\ Len(vad_calls) = 3
    /\ vad_calls[1].verdict = "speech"
    /\ vad_calls[2].verdict = "raise"
    /\ vad_calls[3].verdict = "speech"
    /\ Len(raw_segments) = 2
    /\ Len(merged_segments) = 1

\* C15: a malformed buffer (sample rate 0, or sample width 0) ends in an
\* error before any frame is produced or classified, and no list is returned.
C15_MalformedBufferFailsFast ==
    /\ [][(pc = "start" /\ audio.frame_rate = 0) =>
            (pc' = "error" \/ audio.sample_width = 0)]_vars
    /\ [](sample_width = 0 =>
            /\ pc \in {"split", "error"}
            /\ frames = <<>>
            /\ vad_calls = <<>>
            /\ merged_segments = <<>>)

\* C16: after normalisation the buffer is mono at a rate of {8000, 16000,
\* 32000, 48000}; a rate outside the set becomes 16000 and a rate inside it is
\* kept; frame sizing, timestamps, classification and total duration use the
\* normalised rate.
C16_NormalisedRate ==
    /\ [][(pc = "start" /\ pc' = "split") =>
            /\ audio'.channels = 1
            /\ audio'.frame_rate =
                 IF audio.frame_rate \in {8000, 16000, 32000, 48000}
                 THEN audio.frame_rate ELSE 16000
            /\ sample_rate' = audio'.frame_rate
            /\ frame_bytes' * 1000 =
                 audio'.frame_rate * frame_duration_ms' * audio.sample_width]_vars
    /\ [](pc \notin {"start", "error"} =>
            /\ audio.channels = 1
            /\ audio.frame_rate \in {8000, 16000, 32000, 48000}
            /\ sample_rate = audio.frame_rate
            /\ TicksPerSecond = audio.frame_rate * audio.sample_width
            /\ \A k \in 1..Len(vad_calls) :
                   vad_calls[k].sample_rate = audio.frame_rate
            /\ \A k \in 1..Len(frames) :
                   frames[k] * 1000 =
                     (k - 1) * frame_duration_ms * audio.frame_rate
                             * audio.sample_width)

C16_Witness ==
    /\ pc = "aggregate"
    /\ audio.channels = 1
    /\ audio.frame_rate = 48000
    /\ Len(vad_calls) >= 2
    /\ vad_calls[2].sample_rate = 48000
    /\ frames[2] * 1000 = frame_duration_ms * 48000 * sample_width


\* C17: a segment closed on a non-speech frame ends at the timestamp of the
\* last speech frame of its run when post_speech_padding_sec = 0 (so a run of
\* one speech frame gives start = end), and at that timestamp plus the
\* padding, rounded, when the padding is positive.
C17_ClosedSegmentEnd ==
    [][(pc = "aggregate" /\ pc' = "aggregate"
          /\ Len(segments') = Len(segments) + 1) =>
         LET closed == segments'[Len(segments')]
             last   == speech_flags[n - 1].timestamp
             single == n = 2 \/ ~speech_flags[n - 2].is_speech
         IN  /\ ~speech_flags[n].is_speech
             /\ speech_flags[n - 1].is_speech
             /\ post_speech_padding_sec = 0 =>
                  /\ closed.end = last
                  /\ single => closed.start = closed.end
             /\ post_speech_padding_sec > 0 =>
                  closed.end = Round2(last + post_speech_padding_sec
                                               * Millisecond)]_vars

C17_Witness ==
    /\ pc = "aggregate"
    /\ post_speech_padding_sec = 0
    /\ n = 4
    /\ ~speech_flags[1].is_speech
    /\ speech_flags[2].is_speech
    /\ ~speech_flags[3].is_speech
    /\ segments = <<[start |-> speech_flags[2].timestamp,
                     end   |-> speech_flags[2].timestamp]>>

\* C18: detect_segments is a pure function of its input and configuration:
\* an invocation with the buffer, the configuration and the classifier
\* verdicts of an earlier one returns the same list, whatever was invoked in
\* between, and an invocation starts with no frame, label, raw segment or
\* running segment of an earlier one.
C18_PureAcrossInvocations ==
    /\ (pc = "done" /\ calls.remembered # <<>>
          /\ calls.remembered[1].input = Invocation.input
          /\ calls.remembered[1].verdicts = Invocation.verdicts) =>
         merged_segments = calls.remembered[1].result
    /\ pc = "start" =>
         /\ frames = <<>>
         /\ vad_calls = <<>>
         /\ speech_flags = <<>>
         /\ segments = <<>>
         /\ segment_start = None
         /\ last_speech_timestamp = None
         /\ merged_segments = <<>>
         /\ current = None

C18_Witness ==
    /\ pc = "done"
    /\ calls.count = 3
    /\ calls.remembered # <<>>
    /\ calls.remembered[1].input = Invocation.input
    /\ calls.remembered[1].verdicts = Invocation.verdicts
    /\ Len(merged_segments) = 1
    /\ merged_segments = calls.remembered[1].result

\* C19: for every well-formed buffer and every behaviour of the classifier
\* detect_segments terminates and returns a list; the frame loop, the
\* labelling loop, the aggregation loop and the merge sweep each take a
\* number of steps bounded by the number of frames.
C19_TerminatesWithinFrames ==
    /\ [](pc \notin {"start", "error"} /\ frame_bytes > 0 =>
            /\ Len(frames) <= raw_audio \div frame_bytes
            /\ pc = "split" => i = Len(frames) * frame_bytes
            /\ Len(vad_calls) <= Len(frames)
            /\ Len(speech_flags) <= Len(frames)
            /\ Len(segments) <= Len(frames)
            /\ Len(merged_segments) <= Len(frames)
            /\ pc = "label" => n = Len(vad_calls) + 1
            /\ pc = "aggregate" => n <= Len(frames) + 1
            /\ pc = "merge" => n <= Len(frames) + 1)
    /\ (pc = "start" /\ audio.frame_rate # 0 /\ audio.sample_width # 0)
         ~> (pc = "done")

C19_Witness ==
    /\ pc = "done"
    /\ Len(frames) = 4
    /\ \E k \in 1..Len(vad_calls) : vad_calls[k].verdict = "raise"
    /\ Len(raw_segments) = 2
    /\ Len(merged_segments) = 1

\* C20: the classifier is invoked exactly once per produced frame, in
\* increasing timestamp order, and exactly one label is produced per frame
\* in frame order; a failure on a frame causes neither a retry of that frame
\* nor the skipping of a later frame.
C20_OneCallPerFrameInOrder ==
    /\ Len(vad_calls) <= Len(frames)
    /\ Len(speech_flags) = Len(vad_calls)
    /\ \A k \in 1..Len(vad_calls) :
           /\ vad_calls[k].timestamp = frames[k]
           /\ speech_flags[k].timestamp = frames[k]
           /\ k > 1 => vad_calls[k - 1].timestamp < vad_calls[k].timestamp
    /\ pc \in {"aggregate", "close", "merge_init", "merge", "done"} =>
           Len(vad_calls) = Len(frames)

C20_Witness ==
    /\ pc = "aggregate"
    /\ Len(frames) = 3
    /\ Len(vad_calls) = 3
    /\ vad_calls[2].verdict = "raise"
    /\ vad_calls[3].verdict = "speech"
    /\ speech_flags[3].is_speech

\* C21: a chunk_ms keyword replaces frame_duration_ms, also a valid one,
\* before the {10, 20, 30} validation; the pipelines' call with chunk_ms=100
\* therefore prints the invalid-duration warning and returns the segments of
\* frame_duration_ms = 30.
C21_ChunkOverridesFrameDuration ==
    /\ [][(pc = "start" /\ kwargs # None) =>
            IF kwargs \in {10, 20, 30}
            THEN /\ frame_duration_ms' = kwargs
                 /\ diagnostics' = diagnostics
            ELSE /\ frame_duration_ms' = 30
                 /\ diagnostics' =
                      Append(diagnostics,
                             [kind  |-> "invalid_frame_duration",
                              value |-> kwargs])]_vars
    /\ []((pc = "done" /\ kwargs = 100) =>
            /\ frame_duration_ms = 30
            /\ diagnostics # <<>>
            /\ diagnostics[1] = [kind  |-> "invalid_frame_duration",
                                 value |-> 100]
            /\ Len(speech_flags)
                 = Len(SplitFrames(0, FrameSize(sample_rate, 30) * sample_width))
            /\ merged_segments =
                 detect_segments(30, [k \in 1..Len(speech_flags) |->
                                         speech_flags[k].is_speech]))

C21_Witness ==
    /\ pc = "done"
    /\ kwargs = 100
    /\ frame_duration_ms = 30
    /\ diagnostics # <<>>
    /\ diagnostics[1].value = 100
    /\ Len(frames) >= 3
    /\ frames[2] = 30 * Millisecond
    /\ merged_segments # <<>>

\* C22: a merge step of the gap-merge sweep only extends the running
\* segment: its end after the step is at least its end before the step.
C22_MergeOnlyExtends ==
    [][(pc = "merge" /\ pc' = "merge" /\ current' = current) =>
         segments'[current].end >= segments[current].end]_vars

\* C23: in the list the sweep returns every two consecutive segments are at
\* least padding_duration_ms apart (next start minus previous end), and the
\* same sweep applied to that list returns it unchanged.
C23_SweepIsFixpoint ==
    (pc = "done" /\ merged_segments # <<>>) =>
        /\ \A k \in 1..(Len(merged_segments) - 1) :
               /\ merged_segments[k + 1].start - merged_segments[k].end
                    >= padding_duration_ms * Millisecond
               /\ ~GapBelowThreshold(merged_segments[k + 1].start,
                                     merged_segments[k].end)
        /\ MergeFrom(merged_segments, 2, merged_segments[1], <<>>)
             = merged_segments

C23_Witness ==
    /\ pc = "done"
    /\ padding_duration_ms = 300
    /\ Len(raw_segments) = 3
    /\ Len(merged_segments) = 2
    /\ merged_segments[1].end > raw_segments[1].end
    /\ merged_segments[2].start - merged_segments[1].end = 30 * Hundredth

\* C24: every segment detect_segments returns lies inside the recording:
\* 0 <= start and end <= the total duration rounded to 2 decimals.
C24_SegmentsInsideRecording ==
    pc = "done" =>
        \A k \in 1..Len(merged_segments) :
            /\ 0 <= merged_segments[k].start
            /\ merged_segments[k].end <= Round2(TotalDuration)

\* C25: no detected speech is lost: for every frame labelled speech the
\* returned list holds a segment with start <= round(timestamp, 2) <= end.
C25_SpeechFramesCovered ==
    pc = "done" =>
        \A k \in 1..Len(speech_flags) :
            speech_flags[k].is_speech =>
                \E m \in 1..Len(merged_segments) :
                    /\ merged_segments[m].start
                         <= Round2(speech_flags[k].timestamp)
                    /\ Round2(speech_flags[k].timestamp)
                         <= merged_segments[m].end

C25_Witness ==
    /\ pc = "done"
    /\ post_speech_padding_sec = 200
    /\ Len(speech_flags) = 4
    /\ speech_flags[1].is_speech
    /\ ~speech_flags[2].is_speech
    /\ speech_flags[4].is_speech
    /\ Len(raw_segments) = 2
    /\ raw_segments[1].end > raw_segments[2].end
    /\ Len(merged_segments) = 1
    /\ merged_segments[1].end = raw_segments[2].end

\* C26: with padding_duration_ms = 0 and post_speech_padding_sec = 0 nothing
\* is merged and the returned list has exactly one segment per maximal run
\* of speech-labelled frames, starting at the run's first timestamp; for any
\* configuration the list has at most as many segments as there are runs.
C26_OneSegmentPerRun ==
    pc = "done" =>
        LET runs == {k \in 1..Len(speech_flags) :
                        /\ speech_flags[k].is_speech
                        /\ k = 1 \/ ~speech_flags[k - 1].is_speech}
        IN  /\ Len(merged_segments) <= Cardinality(runs)
            /\ (padding_duration_ms = 0 /\ post_speech_padding_sec = 0) =>
                   /\ merged_segments = raw_segments
                   /\ Len(merged_segments) = Cardinality(runs)
                   /\ {merged_segments[m].start : m \in 1..Len(merged_segments)}
                        = {speech_flags[k].timestamp : k \in runs}
                   /\ \A m \in 1..(Len(merged_segments) - 1) :
                          merged_segments[m].start < merged_segments[m + 1].start

C26_Witness ==
    /\ pc = "done"
    /\ padding_duration_ms = 0
    /\ post_speech_padding_sec = 0
    /\ Len(speech_flags) = 4
    /\ speech_flags[1].is_speech
    /\ ~speech_flags[2].is_speech
    /\ speech_flags[3].is_speech
    /\ speech_flags[4].is_speech
    /\ Len(merged_segments) = 2
    /\ merged_segments[2].start = speech_flags[3].timestamp

\* C27: for every supported rate and effective frame duration the timestamp
\* of frame k (counted from 0) is exactly k * frame_duration_ms milliseconds,
\* a whole number of hundredths of a second; rounding to 2 decimals does not
\* move it, and every returned start is the timestamp of the first speech
\* frame of a run.
C27_TimestampsAreWholeHundredths ==
    (pc \notin {"start", "error"} /\ frame_bytes > 0) =>
        /\ sample_rate \in {8000, 16000, 32000, 48000}
        /\ frame_duration_ms \in {10, 20, 30}
        /\ \A k \in 1..Len(frames) :
               /\ frames[k] * 1000
                    = (k - 1) * frame_duration_ms * sample_rate * sample_width
               /\ frames[k] * 100 =
                    (((k - 1) * frame_duration_ms) \div 10)
                       * sample_rate * sample_width
               /\ Round2(frames[k]) = frames[k]
        /\ pc = "done" =>
               \A m \in 1..Len(merged_segments) :
                   \E k \in 1..Len(speech_flags) :
                       /\ speech_flags[k].is_speech
                       /\ k = 1 \/ ~speech_flags[k - 1].is_speech
                       /\ merged_segments[m].start = frames[k]

C27_Witness ==
    /\ pc = "done"
    /\ sample_rate = 48000
    /\ frame_duration_ms = 30
    /\ Len(frames) = 4
    /\ ~speech_flags[3].is_speech
    /\ speech_flags[4].is_speech
    /\ Len(merged_segments) = 1
    /\ merged_segments[1].start = 9 * Hundredth

\* C28: in every state reachable from the construction of the controller by
\* update_segment_params and set_segment_params calls, segment_params holds
\* the keys frame_duration_ms, padding_duration_ms, aggressiveness and
\* post_speech_padding_sec, and process_raw_segments never fails on a
\* missing key.
C28_DetectionKeysPresent ==
    /\ {"frame_duration_ms", "padding_duration_ms", "aggressiveness",
        "post_speech_padding_sec"} \subseteq DOMAIN segment_params
    /\ last_call.result # "KeyError"

\* C29: starting with no artifact file, a controller step writes its
\* artifact only if its predecessor's artifact exists when it is called, and
\* otherwise returns None, writes nothing and reports an error through the
\* progress callback: process_transcription needs the segments file,
\* process_suggestions the transcription file, generate_srt and
\* generate_edited_video the suggestion file.  Hence the transcription file
\* never exists without the segments file having existed, nor the
\* suggestion file without the transcription file.
C29_StepsNeedPredecessor ==
    /\ [][(last_call' # last_call \/ files' # files) =>
            LET step  == last_call'.step
                needs == CASE step = "process_transcription" -> "segments"
                           [] step = "process_suggestions"   -> "transcription"
                           [] step = "generate_srt"          -> "suggestion"
                           [] step = "generate_edited_video" -> "suggestion"
                           [] OTHER                          -> "video_path"
                made  == CASE step = "process_transcription" -> "transcription"
                           [] step = "process_suggestions"   -> "suggestion"
                           [] step = "generate_srt"          -> "srt"
                           [] step = "generate_edited_video" -> "video"
                           [] OTHER                          -> "segments"
            IN  step # "process_raw_segments" =>
                  IF needs \notin files
                  THEN /\ last_call'.result = "None"
                       /\ last_call'.wrote = {}
                       /\ files' = files
                       /\ last_call'.progress_callback
                            => last_call'.error_reported
                  ELSE /\ files' \subseteq files \cup {made}
                       /\ last_call'.wrote \subseteq {made}
                       /\ ~last_call'.error_reported]_vars
    /\ []("transcription" \in files => "segments" \in files)
    /\ []("suggestion" \in files => "transcription" \in files)
    /\ []("srt" \in files \/ "video" \in files => "suggestion" \in files)

C29_Witness ==
    /\ last_call.step = "process_suggestions"
    /\ last_call.progress_callback
    /\ last_call.result = "None"
    /\ last_call.error_reported
    /\ "segments" \in files
    /\ "transcription" \notin files

\* C30: at most one processing worker thread of the GUI is alive at any
\* time: while a worker has not delivered its completion or error callback,
\* no other step and no second instance of the same step is started.
C30_AtMostOneWorker ==
    Len(workers) <= 1
====
